---- MODULE Spec2Model ----
(* Model of plugins/inputs/broadcasttools/broadcasttools.go:                 *)
(* the BroadcastTools input (init, Gather) and its device (send, Dial,       *)
(* Close, Gather).  A gather cycle is a sequence of program positions        *)
(* (pc); its per-device goroutines are the entries of tasks.                 *)
EXTENDS Bags, FiniteSets, Integers, Sequences, TLC

\* ---------------------------------------------------------------- bounds
MaxURLs == 2
MaxCycles == 2
MaxCookies == 2
MaxDevices == 3

\* ------------------------------------------------------------- constants
Nil == "nil"
StatusOK == 200
StatusUnauthorized == 401
MetricName == "broadcasttools"
LoginPath == "/cgi-bin/postauth.cgi"
LogoutPath == "/cgi-bin/postlogout.cgi"
PollPath == "/cgi-bin/getexchanger_monitor.cgi"
MethodPost == "POST"
MethodGet == "GET"

ErrAlready == "already logged in"
ErrAuth == "authentication failed"
ErrNoCookies == "no cookies returned"
ErrTransport == "transport error"
ErrParse == "parse error"
ErrStatus == "expected status 200"
ErrJSON == "json decode error"

\* ---------------------------------------------------------------- strings
\* Strings whose characters the code inspects (keys, labels and values of a
\* status payload) are sequences of one-character strings.
DigitChars == <<"0", "1", "2", "3", "4", "5", "6", "7", "8", "9">>
UpperChars == <<"A", "B", "C", "D", "E", "F", "G", "H", "I", "J", "K", "L", "M",
                "N", "O", "P", "Q", "R", "S", "T", "U", "V", "W", "X", "Y", "Z">>
LowerChars == <<"a", "b", "c", "d", "e", "f", "g", "h", "i", "j", "k", "l", "m",
                "n", "o", "p", "q", "r", "s", "t", "u", "v", "w", "x", "y", "z">>

Range(s) == {s[i] : i \in DOMAIN s}
IsDigit(c) == c \in Range(DigitChars)
DigitVal(c) == (CHOOSE i \in DOMAIN DigitChars : DigitChars[i] = c) - 1
IsDigits(s) == \A i \in DOMAIN s : IsDigit(s[i])

HasPrefix(s, p) == Len(s) >= Len(p) /\ SubSeq(s, 1, Len(p)) = p
HasSuffix(s, x) == Len(s) >= Len(x) /\ SubSeq(s, Len(s) - Len(x) + 1, Len(s)) = x

TrimSuffixNone(s, x) == s

\* strings.TrimSuffix
TrimSuffix(s, x) == IF HasSuffix(s, x) THEN SubSeq(s, 1, Len(s) - Len(x)) ELSE s

\* the value of a string of decimal digits
RECURSIVE ParseDigits(_)
ParseDigits(s) ==
    IF s = <<>> THEN 0
    ELSE 10 * ParseDigits(SubSeq(s, 1, Len(s) - 1)) + DigitVal(s[Len(s)])

\* strconv.Atoi: an optional sign and one or more decimal digits, else an
\* error and the value 0.  The strings of the model have fewer digits than an
\* int holds, so the range error does not arise.
Atoi(s) ==
    LET signed == s # <<>> /\ s[1] \in {"+", "-"}
        body == IF signed THEN Tail(s) ELSE s
        ok == body # <<>> /\ IsDigits(body)
    IN [err |-> ~ok,
        v |-> IF ~ok THEN 0
              ELSE IF signed /\ s[1] = "-" THEN 0 - ParseDigits(body)
              ELSE ParseDigits(body)]

\* decimal digits of a natural number
RECURSIVE FormatInt(_)
FormatInt(n) ==
    IF n < 10 THEN <<DigitChars[n + 1]>>
    ELSE FormatInt(n \div 10) \o <<DigitChars[(n % 10) + 1]>>

\* fmt.Sprintf("%02d", n) for n >= 0: padded with zeros to two digits
Sprintf02d(n) == IF n < 10 THEN <<"0">> \o FormatInt(n) ELSE FormatInt(n)

ToLowerChar(c) ==
    IF c \in Range(UpperChars)
    THEN LowerChars[CHOOSE i \in DOMAIN UpperChars : UpperChars[i] = c]
    ELSE c

\* strings.ToLower
ToLower(s) == [i \in 1..Len(s) |-> ToLowerChar(s[i])]

\* strings.Replace(s, " ", "_", -1)
ReplaceSpaces(s) == [i \in 1..Len(s) |-> IF s[i] = " " THEN "_" ELSE s[i]]

keyifyRaw(s) == s

\* keyify
keyify(s) == ReplaceSpaces(ToLower(s))

\* ------------------------------------------------------------------- json
\* A decoded JSON value (interface{}): a string, a number, null (the nil
\* interface, which is also what indexing a map by an absent key gives) or an
\* object; GoInt is the int a parser returns.
EmptyObject == [k \in {} |-> 0]
JString(s) == [kind |-> "string", str |-> s, num |-> 0, obj |-> EmptyObject]
JNumber(n) == [kind |-> "number", str |-> <<>>, num |-> n, obj |-> EmptyObject]
JNull == [kind |-> "null", str |-> <<>>, num |-> 0, obj |-> EmptyObject]
JObject(m) == [kind |-> "object", str |-> <<>>, num |-> 0, obj |-> m]
GoInt(n) == [kind |-> "int", str |-> <<>>, num |-> n, obj |-> EmptyObject]

\* src[key] of a map[string]interface{}
Lookup(src, key) == IF key \in DOMAIN src THEN src[key] ELSE JNull

\* m[key] = v
Put(m, key, v) == [k \in DOMAIN m \cup {key} |-> IF k = key THEN v ELSE m[k]]

\* ------------------------------------------------------------------ rules
\* The literal that precedes (\d+) in each pattern ^literal(\d+)$.
regexpTemp == <<"T", "1">>
regexpMeter == <<"M", "1">>
regexpVC == <<"V", "C", "L", "a", "b", "e", "l">>

regexpStatusAsTemp == <<"T", "1">>

regexpStatus == <<"S", "1">>
regexpRelay == <<"R", "2">>

\* the literals of the companion keys and the temperature suffix
TempValue == <<"T", "e", "m", "p", "V", "a", "l", "u", "e">>
MeterValue == <<"M", "e", "t", "e", "r", "V", "a", "l", "u", "e">>
VCValue == <<"V", "C", "V", "a", "l", "u", "e">>
StatusIndicator == <<"S", "t", "a", "t", "u", "s", "I", "n", "d", "i", "c", "a",
                     "t", "o", "r">>
RelayIndicator == <<"R", "e", "l", "a", "y", "I", "n", "d", "i", "c", "a", "t",
                    "o", "r">>
TempSuffix == <<" ", "*", "F">>

\* the entries of the parsers map, by the name of their pattern
RuleNames == {"Temp", "Meter", "VC", "Status", "Relay"}
Regexp(rule) ==
    CASE rule = "Temp" -> regexpTemp
      [] rule = "Meter" -> regexpMeter
      [] rule = "VC" -> regexpVC
      [] rule = "Status" -> regexpStatus
      [] rule = "Relay" -> regexpRelay
Companion(rule) ==
    CASE rule = "Temp" -> TempValue
      [] rule = "Meter" -> MeterValue
      [] rule = "VC" -> VCValue
      [] rule = "Status" -> StatusIndicator
      [] rule = "Relay" -> RelayIndicator

\* reg.FindStringSubmatch(key) for the pattern ^reg(\d+)$: the whole match and
\* the digits, or nil
FindStringSubmatch(reg, key) ==
    IF /\ HasPrefix(key, reg)
       /\ Len(key) > Len(reg)
       /\ IsDigits(SubSeq(key, Len(reg) + 1, Len(key)))
    THEN <<key, SubSeq(key, Len(reg) + 1, Len(key))>>
    ELSE <<>>

\* parser(src, index) of a rule: the temperature parser asserts that the
\* companion is a string (a panic if it is absent or not one), trims the
\* suffix and parses; the others return the companion as it is
parser(rule, src, index) ==
    LET t == Lookup(src, Companion(rule) \o Sprintf02d(index)) IN
    IF rule = "Temp"
    THEN IF t.kind # "string"
         THEN [panic |-> TRUE, value |-> JNull]
         ELSE [panic |-> FALSE,
               value |-> GoInt(Atoi(TrimSuffix(t.str, TempSuffix)).v)]
    ELSE [panic |-> FALSE, value |-> t]

\* the rules of the inner loop that get past both continue statements for key
Matching(key) ==
    {rule \in RuleNames :
        LET matches == FindStringSubmatch(Regexp(rule), key) IN
        Len(matches) >= 2 /\ ~Atoi(matches[2]).err}

\* the parser's result for a key and one of its matching rules
Parsed(src, key, rule) ==
    parser(rule, src, Atoi(FindStringSubmatch(Regexp(rule), key)[2]).v)

\* one iteration of the loop over values: the inner loop over parsers, whose
\* order is not fixed, writes fields[keyify(name)] once per matching rule, so
\* the entry ends as the value of any of them; a parser's panic or a label
\* that is not a string panics
VisitKey(src, fs, key) ==
    LET M == Matching(key) IN
    IF M = {} THEN {[panic |-> FALSE, fields |-> fs]}
    ELSE IF src[key].kind # "string" \/ \E rule \in M : Parsed(src, key, rule).panic
    THEN {[panic |-> TRUE, fields |-> fs]}
    ELSE {[panic |-> FALSE,
           fields |-> Put(fs, keyify(src[key].str), Parsed(src, key, rule).value)] :
             rule \in M}

\* the loop over values from the keys still to visit, in every order a map
\* iteration can take: the fields at its end, or a panic
RECURSIVE RangeValues(_, _, _)
RangeValues(src, keys, fs) ==
    IF keys = {} THEN {[panic |-> FALSE, fields |-> fs]}
    ELSE UNION {UNION {IF o.panic THEN {o}
                       ELSE RangeValues(src, keys \ {key}, o.fields) :
                         o \in VisitKey(src, fs, key)} : key \in keys}

\* ------------------------------------------------ inputs (configuration)
GoodURL == "http://a:1776"
BadURL == ":bad"
URLPool == {GoodURL, BadURL}
CookieNames == {"ck1", "ck2"}

SeqsUpTo(S, n) == UNION {[1..k -> S] : k \in 0..n}

\* responses a device can give to the login request
NoResp == [err |-> Nil, status |-> 0, cookies |-> <<>>]
HTTPResponses ==
    {[err |-> ErrTransport, status |-> 0, cookies |-> <<>>]} \cup
    {[err |-> Nil, status |-> s, cookies |-> c] :
        s \in {StatusOK, StatusUnauthorized}, c \in SeqsUpTo(CookieNames, MaxCookies)}

\* responses a device can give to the logout request, whose status and cookies
\* Close never reads
LogoutResponses ==
    {[err |-> ErrTransport, status |-> 0, cookies |-> <<>>]} \cup
    {[err |-> Nil, status |-> s, cookies |-> <<>>] :
        s \in {StatusOK, StatusUnauthorized}}

\* the bodies a device gives to the status request in a gather cycle: not a
\* JSON object, a JSON object without "values", one whose "values" is a string,
\* and one whose "values" is an object with one temperature key and companion
StudioA == <<"S", "t", "u", "d", "i", "o", " ", "A">>
Temp72F == <<"7", "2", " ", "*", "F">>
Index01 == <<"0", "1">>
GoodValues ==
    (regexpTemp \o Index01 :> JString(StudioA)) @@
    (TempValue \o Index01 :> JString(Temp72F))
NoBody == [json |-> FALSE, values |-> JNull]
CycleBodies ==
    {NoBody,
     [json |-> TRUE, values |-> JNull],
     [json |-> TRUE, values |-> JString(StudioA)],
     [json |-> TRUE, values |-> JObject(GoodValues)]}

\* responses a device can give to the status request: a transport error, or a
\* status with a body
NoPollResp == [err |-> Nil, status |-> 0, body |-> NoBody]
PollResponses ==
    {[err |-> ErrTransport, status |-> 0, body |-> NoBody]} \cup
    {[err |-> Nil, status |-> StatusUnauthorized, body |-> NoBody]} \cup
    {[err |-> Nil, status |-> StatusOK, body |-> b] : b \in CycleBodies}

VARIABLES
    URLs,         \* bt.URLs
    initialized,  \* bt.initialized
    devices,      \* bt.devices
    pc,           \* position: idle, init, launch (in Gather), called (a direct
                  \* call of a Device method has returned), crashed (a panic)
    idx,          \* loop index of init's and Gather's range loops
    tasks,        \* goroutines launched by the current Gather call
    wg,           \* sync.WaitGroup counter
    acc,          \* what the accumulator received in the current Gather call
    ret,          \* return value of the last Gather call
    reqs,         \* requests sent since the last Gather call began
    lastOp,       \* the direct Dial, Close or Gather call that has just
                  \* returned, or init's latest Dial: receiver
                  \* before and after, response, result
    created,      \* number of device values constructed
    authed,       \* ids of devices whose Dial has succeeded
    cycles,       \* number of Gather calls made
    values,       \* device.Gather's loop taken alone: the decoded values map
    keys,         \* the keys of values its range loop has still to visit
    fields,       \* its fields map
    lpc,          \* its position: range, emitted (AddFields called), panic
    visit         \* its latest iteration: the key, the number of writes to
                  \* fields, and the name and value last written

btVars == <<URLs, initialized, devices, pc, idx, tasks, wg, acc, ret, reqs,
            lastOp, created, authed, cycles>>
loopVars == <<values, keys, fields, lpc, visit>>
vars == <<URLs, initialized, devices, pc, idx, tasks, wg, acc, ret, reqs,
          lastOp, created, authed, cycles, values, keys, fields, lpc, visit>>

NoDevice == [id |-> 0, url |-> 0, base |-> "", ck |-> Nil, c |-> Nil]
NoOp == [op |-> "none", pre |-> NoDevice, post |-> NoDevice, resp |-> NoResp,
         err |-> Nil, reqs |-> {}]
EmptyAcc == [fields |-> EmptyBag, errors |-> EmptyBag]
NoVisit == [key |-> <<>>, writes |-> 0, name |-> <<>>, value |-> JNull]

\* ------------------------------------------------------------------ url
\* url.Parse: fails on the malformed address, else yields the base URL, whose
\* Path is empty for an address of scheme, host and port
ParseOK(u) == u # BadURL
BasePath(u) == ""

\* URL.EscapedPath as URL.String uses it: RawPath is taken only when it is an
\* encoding of Path; the endpoint paths contain no escapes
EscapedPath(path, rawpath) ==
    IF rawpath # "" /\ rawpath = path THEN rawpath ELSE path

\* --------------------------------------------------------------- device
\* device.send up to the call of d.c.Do: the request built, or a panic on a
\* nil cookie (r.AddCookie(nil)) or a nil client
send(d, method, path, sendCookie) ==
    [panic |-> (sendCookie /\ d.ck = Nil) \/ d.c = Nil,
     req |-> [method |-> method,
              rawpath |-> path,
              path |-> EscapedPath(d.base, path),
              cookie |-> IF sendCookie THEN d.ck ELSE Nil,
              form |-> method = MethodPost]]

AlreadyLoggedInUnchecked(d) == FALSE

AlreadyLoggedIn(d) == d.ck # Nil

LoginFailedUnchecked(resp) == FALSE

LoginFailed(resp) == resp.status # StatusOK

NoCookies(cks) == Len(cks) < 1

SessionCookieLast(cks) == cks[Len(cks)]

SessionCookie(cks) == cks[1]

\* device.Dial (pointer receiver): d is the receiver after the call
Dial(d, resp) ==
    IF AlreadyLoggedIn(d)
    THEN [d |-> d, err |-> ErrAlready, reqs |-> {}, panic |-> FALSE]
    ELSE LET s == send(d, MethodPost, LoginPath, FALSE) IN
         IF s.panic
         THEN [d |-> d, err |-> Nil, reqs |-> {}, panic |-> TRUE]
         ELSE IF resp.err # Nil
         THEN [d |-> d, err |-> resp.err, reqs |-> {s.req}, panic |-> FALSE]
         ELSE IF LoginFailed(resp)
         THEN [d |-> d, err |-> ErrAuth, reqs |-> {s.req}, panic |-> FALSE]
         ELSE IF NoCookies(resp.cookies)
         THEN [d |-> d, err |-> ErrNoCookies, reqs |-> {s.req}, panic |-> FALSE]
         ELSE [d |-> [d EXCEPT !.ck = SessionCookie(resp.cookies)],
               err |-> Nil, reqs |-> {s.req}, panic |-> FALSE]

\* the receiver the caller holds after a method with a value receiver has
\* assigned to its fields: the method worked on a copy
ValueReceiver(caller, copy) == caller

CloseErrReturned(err) == err

CloseErr(err) == Nil

\* device.Close (value receiver): copy is the method's own d, d the caller's
Close(d, resp) ==
    LET s == send(d, MethodPost, LogoutPath, TRUE) IN
    IF s.panic
    THEN [d |-> d, err |-> Nil, reqs |-> {}, panic |-> TRUE]
    ELSE IF resp.err # Nil
    THEN [d |-> ValueReceiver(d, d), err |-> CloseErr(resp.err),
          reqs |-> {s.req}, panic |-> FALSE]
    ELSE [d |-> ValueReceiver(d, [d EXCEPT !.ck = Nil, !.c = Nil]),
          err |-> Nil, reqs |-> {s.req}, panic |-> FALSE]

\* the type assertion data["values"].(map[string]interface{}) holds
HasValues(body) == body.values.kind = "object"

NoFields == EmptyObject

GatherDeviceFieldsFirst(i, resp) ==
    {[err |-> ErrStatus,
      fields |-> SetToBag({[name |-> MetricName, tags |-> Nil, dev |-> i,
                            fields |-> NoFields]}),
      panic |-> FALSE]}

\* device.Gather after the request was sent, as the set of its possible
\* outcomes: the error returned, the AddFields call made with the fields of the
\* loop over values, or a panic (of the type assertion on data["values"], or
\* in the loop).  Decode fails on a body that is not a JSON object.
GatherDevice(i, resp) ==
    IF resp.err # Nil
    THEN {[err |-> resp.err, fields |-> EmptyBag, panic |-> FALSE]}
    ELSE IF resp.status # StatusOK
    THEN {[err |-> ErrStatus, fields |-> EmptyBag, panic |-> FALSE]}
    ELSE IF ~resp.body.json
    THEN {[err |-> ErrJSON, fields |-> EmptyBag, panic |-> FALSE]}
    ELSE IF ~HasValues(resp.body)
    THEN {[err |-> Nil, fields |-> EmptyBag, panic |-> TRUE]}
    ELSE {[err |-> Nil,
           fields |-> IF o.panic THEN EmptyBag
                      ELSE SetToBag({[name |-> MetricName, tags |-> Nil,
                                      dev |-> i, fields |-> o.fields]}),
           panic |-> o.panic] :
             o \in RangeValues(resp.body.values.obj,
                               DOMAIN resp.body.values.obj, NoFields)}

\* ------------------------------------------------------- BroadcastTools
NeedInitAlways(init) == TRUE

NeedInit(init) == ~init

DialFailedIgnored(err) == FALSE

DialFailed(err) == err # Nil

InitFailedIgnored(err) == FALSE

InitFailed(err) == err # Nil

WaitDoneNoWait(n) == TRUE

WaitDone(n) == n = 0

ReportErrorsDropped(i, err) == EmptyBag

\* the goroutine of Gather once d.Gather has returned: AddError on an error
ReportErrors(i, err) ==
    IF err # Nil THEN SetToBag({[dev |-> i, err |-> err]}) ELSE EmptyBag

Init ==
    /\ URLs \in SeqsUpTo(URLPool, MaxURLs)
    /\ initialized = FALSE
    /\ devices = <<>>
    /\ pc = "idle"
    /\ idx = 0
    /\ tasks = <<>>
    /\ wg = 0
    /\ acc = EmptyAcc
    /\ ret = "none"
    /\ reqs = {}
    /\ lastOp = NoOp
    /\ created = 0
    /\ authed = {}
    /\ cycles = 0
    /\ values = EmptyObject
    /\ keys = {}
    /\ fields = NoFields
    /\ lpc = "none"
    /\ visit = NoVisit

\* BroadcastTools.Gather is called: the check of bt.initialized.  Calls are
\* made while the call count and the length an initialization pass can give
\* bt.devices are within the bounds.
GatherCall ==
    /\ pc = "idle"
    /\ cycles < MaxCycles
    /\ initialized \/ Len(devices) + Len(URLs) <= MaxDevices
    /\ cycles' = cycles + 1
    /\ pc' = IF NeedInit(initialized) THEN "init" ELSE "launch"
    /\ idx' = 1
    /\ tasks' = <<>>
    /\ acc' = EmptyAcc
    /\ ret' = "pending"
    /\ reqs' = {}
    /\ lastOp' = NoOp
    /\ UNCHANGED <<URLs, initialized, devices, wg, created, authed>>
    /\ UNCHANGED loopVars

\* init has returned err to Gather: Gather returns it, or goes on to its loop
InitReturns(err) ==
    IF InitFailed(err)
    THEN /\ pc' = "idle"
         /\ ret' = err
         /\ UNCHANGED idx
    ELSE /\ pc' = "launch"
         /\ idx' = 1
         /\ UNCHANGED ret

\* one iteration of init's loop whose url.Parse fails: init returns the error
InitParseFail ==
    /\ pc = "init"
    /\ idx <= Len(URLs)
    /\ ~ParseOK(URLs[idx])
    /\ InitReturns(ErrParse)
    /\ UNCHANGED <<URLs, initialized, devices, tasks, wg, acc, reqs, lastOp,
                   created, authed, cycles>>
    /\ UNCHANGED loopVars

\* one iteration of init's loop: the device is made and dialled, then
\* appended, or init returns Dial's error
InitDial(resp) ==
    /\ pc = "init"
    /\ idx <= Len(URLs)
    /\ ParseOK(URLs[idx])
    /\ LET d == [id |-> created + 1, url |-> idx, base |-> BasePath(URLs[idx]),
                 ck |-> Nil, c |-> "client"]
           r == Dial(d, resp)
       IN /\ created' = created + 1
          /\ reqs' = reqs \cup r.reqs
          /\ lastOp' = [op |-> "Dial", pre |-> d, post |-> r.d, resp |-> resp,
                        err |-> r.err, reqs |-> r.reqs]
          /\ authed' = IF r.err = Nil /\ ~r.panic
                       THEN authed \cup {r.d.id} ELSE authed
          /\ IF r.panic
             THEN /\ pc' = "crashed"
                  /\ UNCHANGED <<devices, idx, ret>>
             ELSE IF DialFailed(r.err)
             THEN /\ InitReturns(r.err)
                  /\ UNCHANGED devices
             ELSE /\ devices' = Append(devices, r.d)
                  /\ idx' = idx + 1
                  /\ UNCHANGED <<pc, ret>>
    /\ UNCHANGED <<URLs, initialized, tasks, wg, acc, cycles>>
    /\ UNCHANGED loopVars

\* init's loop has ended: bt.initialized is set and Gather goes on
InitDone ==
    /\ pc = "init"
    /\ idx > Len(URLs)
    /\ initialized' = TRUE
    /\ pc' = "launch"
    /\ idx' = 1
    /\ lastOp' = NoOp
    /\ UNCHANGED <<URLs, devices, tasks, wg, acc, ret, reqs, created, authed,
                   cycles>>
    /\ UNCHANGED loopVars

\* one iteration of Gather's loop: wg.Add(1) and the go statement
Launch ==
    /\ pc = "launch"
    /\ idx <= Len(devices)
    /\ wg' = wg + 1
    /\ tasks' = Append(tasks, [pc |-> "ready", resp |-> NoPollResp])
    /\ idx' = idx + 1
    /\ UNCHANGED <<URLs, initialized, devices, pc, acc, ret, reqs, lastOp,
                   created, authed, cycles>>
    /\ UNCHANGED loopVars

\* goroutine i calls d.Gather, which sends the status request
TaskSend(i) ==
    /\ pc = "launch"
    /\ i \in DOMAIN tasks
    /\ tasks[i].pc = "ready"
    /\ LET s == send(devices[i], MethodGet, PollPath, TRUE) IN
       IF s.panic
       THEN /\ pc' = "crashed"
            /\ UNCHANGED <<tasks, reqs>>
       ELSE /\ tasks' = [tasks EXCEPT ![i].pc = "sent"]
            /\ reqs' = reqs \cup {s.req}
            /\ UNCHANGED pc
    /\ UNCHANGED <<URLs, initialized, devices, idx, wg, acc, ret, lastOp,
                   created, authed, cycles>>
    /\ UNCHANGED loopVars

\* the status request of goroutine i returns: the rest of d.Gather, the
\* goroutine's AddError, and the deferred wg.Done
TaskRecv(i, resp) ==
    /\ pc = "launch"
    /\ i \in DOMAIN tasks
    /\ tasks[i].pc = "sent"
    /\ \E r \in GatherDevice(i, resp) :
       IF r.panic
       THEN /\ pc' = "crashed"
            /\ tasks' = [tasks EXCEPT ![i] = [pc |-> "panic", resp |-> resp]]
            /\ UNCHANGED <<acc, wg>>
       ELSE /\ tasks' = [tasks EXCEPT ![i] = [pc |-> "done", resp |-> resp]]
            /\ acc' = [fields |-> acc.fields (+) r.fields,
                       errors |-> acc.errors (+) ReportErrors(i, r.err)]
            /\ wg' = wg - 1
            /\ UNCHANGED pc
    /\ UNCHANGED <<URLs, initialized, devices, idx, ret, reqs, lastOp, created,
                   authed, cycles>>
    /\ UNCHANGED loopVars

\* wg.Wait returns and Gather returns nil
GatherReturn ==
    /\ pc = "launch"
    /\ idx > Len(devices)
    /\ WaitDone(wg)
    /\ pc' = "idle"
    /\ ret' = Nil
    /\ UNCHANGED <<URLs, initialized, devices, idx, tasks, wg, acc, reqs,
                   lastOp, created, authed, cycles>>
    /\ UNCHANGED loopVars

\* a caller holding a Device of bt.devices calls its Dial between gather
\* cycles; there is a response only when Dial sends a request
CallDial(i, resp) ==
    /\ pc = "idle"
    /\ i \in DOMAIN devices
    /\ Dial(devices[i], NoResp).reqs = {} => resp = NoResp
    /\ LET r == Dial(devices[i], resp) IN
       /\ lastOp' = [op |-> "Dial", pre |-> devices[i], post |-> r.d,
                     resp |-> resp,
                     err |-> r.err, reqs |-> r.reqs]
       /\ reqs' = reqs \cup r.reqs
       /\ pc' = IF r.panic THEN "crashed" ELSE "called"
       /\ devices' = [devices EXCEPT ![i] = r.d]
       /\ authed' = IF r.err = Nil /\ ~r.panic THEN authed \cup {r.d.id} ELSE authed
    /\ UNCHANGED <<URLs, initialized, idx, tasks, wg, acc, ret, created, cycles>>
    /\ UNCHANGED loopVars

\* a caller holding a Device of bt.devices calls its Close between gather cycles
CallClose(i, resp) ==
    /\ pc = "idle"
    /\ i \in DOMAIN devices
    /\ LET r == Close(devices[i], resp) IN
       /\ lastOp' = [op |-> "Close", pre |-> devices[i], post |-> r.d,
                     resp |-> resp,
                     err |-> r.err, reqs |-> r.reqs]
       /\ reqs' = reqs \cup r.reqs
       /\ pc' = IF r.panic THEN "crashed" ELSE "called"
       /\ devices' = [devices EXCEPT ![i] = r.d]
    /\ UNCHANGED <<URLs, initialized, idx, tasks, wg, acc, ret, created, authed,
                   cycles>>
    /\ UNCHANGED loopVars

\* the caller of a direct Dial or Close goes on
CallReturn ==
    /\ pc = "called"
    /\ pc' = "idle"
    /\ lastOp' = NoOp
    /\ UNCHANGED <<URLs, initialized, devices, idx, tasks, wg, acc, ret, reqs,
                   created, authed, cycles>>
    /\ UNCHANGED loopVars

Next ==
    \/ GatherCall
    \/ InitParseFail
    \/ \E resp \in HTTPResponses : InitDial(resp)
    \/ InitDone
    \/ Launch
    \/ \E i \in 1..Len(tasks) : TaskSend(i)
    \/ \E i \in 1..Len(tasks), resp \in PollResponses : TaskRecv(i, resp)
    \/ GatherReturn
    \/ \E i \in 1..Len(devices), resp \in HTTPResponses \cup {NoResp} :
           CallDial(i, resp)
    \/ \E i \in 1..Len(devices), resp \in LogoutResponses : CallClose(i, resp)
    \/ CallReturn

Spec == Init /\ [][Next]_vars

\* The gather cycle under fair scheduling: the Go scheduler runs the loop of
\* Gather and every goroutine that can take a step, and every status request
\* sent comes back (with a response or an error).
FairSpec ==
    /\ Spec
    /\ WF_vars(Launch)
    /\ WF_vars(GatherReturn)
    /\ \A i \in 1..MaxDevices :
         /\ WF_vars(TaskSend(i))
         /\ WF_vars(\E resp \in PollResponses : TaskRecv(i, resp))

\* ------------------------------------------- a device, taken alone
\* a caller holding a Device calls its Gather; there is a response only when
\* the request is sent.  The caller gets the error; acc is what this call
\* gave the accumulator.
CallGather(i, resp) ==
    /\ pc = "idle"
    /\ i \in DOMAIN devices
    /\ LET s == send(devices[i], MethodGet, PollPath, TRUE) IN
       IF s.panic
       THEN /\ resp = NoPollResp
            /\ pc' = "crashed"
            /\ lastOp' = [op |-> "Gather", pre |-> devices[i],
                          post |-> devices[i], resp |-> NoResp,
                          err |-> Nil, reqs |-> {}]
            /\ acc' = EmptyAcc
            /\ UNCHANGED reqs
       ELSE /\ resp # NoPollResp
            /\ \E r \in GatherDevice(i, resp) :
                 /\ pc' = IF r.panic THEN "crashed" ELSE "called"
                 /\ lastOp' = [op |-> "Gather", pre |-> devices[i],
                               post |-> devices[i], resp |-> NoResp,
                               err |-> r.err, reqs |-> {s.req}]
                 /\ acc' = [fields |-> r.fields, errors |-> EmptyBag]
                 /\ reqs' = reqs \cup {s.req}
    /\ UNCHANGED <<URLs, initialized, devices, idx, tasks, wg, ret, created,
                   authed, cycles>>
    /\ UNCHANGED loopVars

\* devices as init constructs them, one per URL, before their Dial, in the
\* hands of a caller of the Device interface
DeviceInit ==
    /\ URLs \in SeqsUpTo({GoodURL}, MaxURLs) \ {<<>>}
    /\ initialized = FALSE
    /\ devices = [i \in 1..Len(URLs) |->
                    [id |-> i, url |-> i, base |-> BasePath(URLs[i]),
                     ck |-> Nil, c |-> "client"]]
    /\ pc = "idle"
    /\ idx = 0
    /\ tasks = <<>>
    /\ wg = 0
    /\ acc = EmptyAcc
    /\ ret = "none"
    /\ reqs = {}
    /\ lastOp = NoOp
    /\ created = Len(URLs)
    /\ authed = {}
    /\ cycles = 0
    /\ values = EmptyObject
    /\ keys = {}
    /\ fields = NoFields
    /\ lpc = "none"
    /\ visit = NoVisit

\* the caller calls Dial, Close and Gather in any order
DeviceNext ==
    \/ \E i \in 1..Len(devices), resp \in HTTPResponses \cup {NoResp} :
           CallDial(i, resp)
    \/ \E i \in 1..Len(devices), resp \in LogoutResponses : CallClose(i, resp)
    \/ \E i \in 1..Len(devices), resp \in PollResponses \cup {NoPollResp} :
           CallGather(i, resp)
    \/ CallReturn

DeviceSpec == DeviceInit /\ [][DeviceNext]_vars

\* ------------------------------------- the loop over values, taken alone
\* labels and companion values a payload can hold
Fwd == <<"F", "w", "d">>
VC1 == <<"V", "C", " ", "1">>
OnAir == <<"O", "n", " ", "A", "i", "r">>
Fan == <<"F", "a", "n">>
studio_a == <<"s", "t", "u", "d", "i", "o", "_", "a">>
Temp72 == <<"7", "2">>
TempStrings ==
    {Temp72F, Temp72, <<"7", "x">>, <<>>, <<"-", "5", " ", "*", "F">>,
     TempSuffix, <<"7", "2", "*", "F">>}
Index1 == <<"1">>
Index12 == <<"1", "2">>

\* a values map with one key of each rule and their companions; the meter's
\* label and the temperature are given
Full(meterLabel, temp) ==
    (regexpTemp \o Index01 :> JString(StudioA)) @@
    (TempValue \o Index01 :> JString(temp)) @@
    (regexpMeter \o Index01 :> JString(meterLabel)) @@
    (MeterValue \o Index01 :> JNumber(5)) @@
    (regexpVC \o Index01 :> JString(VC1)) @@
    (VCValue \o Index01 :> JString(Fwd)) @@
    (regexpStatus \o Index01 :> JString(OnAir)) @@
    (StatusIndicator \o Index01 :> JNumber(1)) @@
    (regexpRelay \o Index01 :> JString(Fan)) @@
    (RelayIndicator \o Index01 :> JNumber(0))

\* a values map with one key of a rule and, maybe, a companion key
Single(rule, digits, name, cdigits, comp) ==
    (Regexp(rule) \o digits :> name) @@ (Companion(rule) \o cdigits :> comp)
Alone(rule, digits, name) == (Regexp(rule) \o digits :> name)

\* a values map whose keys are near misses of the patterns
OddKeys ==
    (regexpTemp :> JString(StudioA)) @@
    (regexpTemp \o <<"x", "1">> :> JString(Fwd)) @@
    (<<"x">> \o regexpTemp \o Index01 :> JString(VC1)) @@
    (regexpTemp \o Index01 \o <<" ">> :> JString(OnAir)) @@
    (<<"T", "2", "0", "1">> :> JString(Fan)) @@
    (regexpRelay \o Index12 :> JString(Temp72))

Payloads ==
    {Full(ml, t) : ml \in {Fwd, studio_a}, t \in {Temp72F, Temp72}} \cup
    {Single("Temp", kd, JString(StudioA), cd, JString(t)) :
        kd \in {Index01, Index1, Index12}, cd \in {Index01, Index12},
        t \in TempStrings} \cup
    {Single(rule, Index01, name, Index01, comp) :
        rule \in RuleNames, name \in {JString(StudioA), JNumber(1), JNull},
        comp \in {JString(Temp72F), JNumber(5), JNull}} \cup
    {Alone(rule, Index01, JString(StudioA)) : rule \in RuleNames} \cup
    {OddKeys}

\* device.Gather has decoded a body and asserted its "values": the loop begins
LoopInit ==
    /\ URLs = <<>>
    /\ initialized = FALSE
    /\ devices = <<>>
    /\ pc = "idle"
    /\ idx = 0
    /\ tasks = <<>>
    /\ wg = 0
    /\ acc = EmptyAcc
    /\ ret = "none"
    /\ reqs = {}
    /\ lastOp = NoOp
    /\ created = 0
    /\ authed = {}
    /\ cycles = 0
    /\ values \in Payloads
    /\ keys = DOMAIN values
    /\ fields = NoFields
    /\ lpc = "range"
    /\ visit = NoVisit

\* one iteration of the loop over values, for any key not yet visited
Visit(key) ==
    /\ lpc = "range"
    /\ key \in keys
    /\ keys' = keys \ {key}
    /\ \E o \in VisitKey(values, fields, key) :
         IF o.panic
         THEN /\ lpc' = "panic"
              /\ visit' = [key |-> key, writes |-> 0, name |-> <<>>,
                           value |-> JNull]
              /\ UNCHANGED fields
         ELSE /\ fields' = o.fields
              /\ visit' = IF Matching(key) = {}
                          THEN [key |-> key, writes |-> 0, name |-> <<>>,
                                value |-> JNull]
                          ELSE [key |-> key,
                                writes |-> Cardinality(Matching(key)),
                                name |-> keyify(values[key].str),
                                value |-> o.fields[keyify(values[key].str)]]
              /\ UNCHANGED lpc
    /\ UNCHANGED <<btVars, values>>

\* the loop has ended: acc.AddFields("broadcasttools", fields, nil)
AddFields ==
    /\ lpc = "range"
    /\ keys = {}
    /\ lpc' = "emitted"
    /\ UNCHANGED <<btVars, values, keys, fields, visit>>

LoopNext ==
    \/ \E key \in keys : Visit(key)
    \/ AddFields

LoopSpec == LoopInit /\ [][LoopNext]_vars

TypeOK ==
    /\ pc \in {"idle", "init", "launch", "called", "crashed"}
    /\ initialized \in BOOLEAN
    /\ wg \in 0..Len(devices)
    /\ Len(tasks) <= Len(devices)

\* ---------------------------------------------------------------- claims
IsError(e) == e \notin {Nil, "none", "pending"}

\* C1: after Close on an Authenticated device, whatever the outcome of the
\* logout request, the device the caller holds has no cookie and no client,
\* so a following Dial is not rejected as already logged in.
C1_CloseClearsSession ==
    (lastOp.op = "Close" /\ lastOp.pre.ck # Nil) =>
        /\ lastOp.post.ck = Nil
        /\ lastOp.post.c = Nil
        /\ ~AlreadyLoggedIn(lastOp.post)

\* a poll that returned an error: transport error, status not 200, or a body
\* that is not JSON
PollFailed(t) ==
    /\ t.pc = "done"
    /\ (t.resp.err # Nil \/ t.resp.status # StatusOK \/ ~t.resp.body.json)

PollSucceeded(t) ==
    /\ t.pc = "done"
    /\ t.resp.err = Nil
    /\ t.resp.status = StatusOK
    /\ t.resp.body.json
    /\ HasValues(t.resp.body)

OnlyFailure(k) ==
    /\ pc = "idle"
    /\ tasks # <<>>
    /\ Len(tasks) = Len(devices)
    /\ PollFailed(tasks[k])
    /\ \A j \in DOMAIN tasks \ {k} : PollSucceeded(tasks[j])

C3_Barrier ==
    (pc = "idle" /\ ret = Nil) =>
        /\ Len(tasks) = Len(devices)
        /\ \A i \in DOMAIN tasks : tasks[i].pc = "done"
        /\ BagCardinality(acc.fields) + BagCardinality(acc.errors) = Len(tasks)

C3_Witness ==
    /\ pc = "idle"
    /\ ret = Nil
    /\ Len(tasks) >= 2

\* C4: every device that has a poll task, and every poll request sent, is of a
\* device whose Dial has succeeded and whose cookie is set.
C4_PolledOnlyAfterLogin ==
    /\ \A i \in DOMAIN tasks :
         /\ devices[i].id \in authed
         /\ devices[i].ck # Nil
    /\ \A r \in reqs : r.rawpath = PollPath => r.cookie # Nil

\* a poll is in flight in a cycle that follows one whose init failed part-way
C4_Witness ==
    /\ \E i \in DOMAIN tasks : tasks[i].pc = "sent"
    /\ created > Len(devices)
    /\ cycles = 2

\* C5: Dial on a device that has a cookie returns the already-logged-in error,
\* sends no request and leaves the device as it was.
C5_DialWhenAuthenticated ==
    (lastOp.op = "Dial" /\ lastOp.pre.ck # Nil) =>
        /\ lastOp.err = ErrAlready
        /\ lastOp.reqs = {}
        /\ lastOp.post = lastOp.pre
        /\ \E i \in DOMAIN devices : devices[i] = lastOp.pre

C5_Witness ==
    /\ lastOp.op = "Dial"
    /\ lastOp.pre.ck # Nil
    /\ pc = "called"

ValidLogin(resp) ==
    /\ resp.err = Nil
    /\ resp.status = StatusOK
    /\ Len(resp.cookies) >= 1

\* C6: Dial on a device without a cookie, answered by status 200 with at least
\* one cookie, returns nil and stores the first cookie of the response; the
\* device is the one appended to bt.devices.
C6_StoresFirstCookie ==
    (lastOp.op = "Dial" /\ lastOp.pre.ck = Nil /\ ValidLogin(lastOp.resp)) =>
        /\ lastOp.err = Nil
        /\ lastOp.post.ck = Head(lastOp.resp.cookies)
        /\ devices # <<>>
        /\ devices[Len(devices)] = lastOp.post
        /\ AlreadyLoggedIn(devices[Len(devices)])

C6_Witness ==
    /\ lastOp.op = "Dial"
    /\ lastOp.pre.ck = Nil
    /\ Len(lastOp.resp.cookies) = 2
    /\ lastOp.resp.cookies[1] # lastOp.resp.cookies[2]
    /\ lastOp.resp.status = StatusOK
    /\ lastOp.post.ck = lastOp.resp.cookies[1]

\* C7: Dial on a device without a cookie returns the transport error when the
\* request fails, the authentication error when the status is not 200, and
\* the no-cookies error when the status is 200 with no cookie; in each case
\* the device still has no cookie and is not in bt.devices.
C7_LoginFailures ==
    (lastOp.op = "Dial" /\ lastOp.pre.ck = Nil /\ ~ValidLogin(lastOp.resp)) =>
        /\ lastOp.resp.err # Nil => lastOp.err = lastOp.resp.err
        /\ (lastOp.resp.err = Nil /\ lastOp.resp.status # StatusOK) =>
               lastOp.err = ErrAuth
        /\ (lastOp.resp.err = Nil /\ lastOp.resp.status = StatusOK) =>
               lastOp.err = ErrNoCookies
        /\ lastOp.post.ck = Nil
        /\ \A i \in DOMAIN devices : devices[i].id # lastOp.post.id

\* a login answered with a status other than 200 that carried cookies
C7_Witness ==
    /\ lastOp.op = "Dial"
    /\ lastOp.pre.ck = Nil
    /\ lastOp.resp.err = Nil
    /\ lastOp.resp.status # StatusOK
    /\ lastOp.resp.cookies # <<>>
    /\ lastOp.err = ErrAuth

\* C8: Close returns nil for every outcome of the logout request, and does
\* not panic.
C8_CloseNeverFails ==
    lastOp.op = "Close" =>
        /\ lastOp.err = Nil
        /\ pc = "called"

C8_Witness ==
    /\ lastOp.op = "Close"
    /\ lastOp.resp.err = ErrTransport
    /\ lastOp.reqs # {}

\* the step is an iteration of init's loop that fails
InitFailure ==
    /\ pc = "init"
    /\ idx <= Len(URLs)
    /\ \/ ~ParseOK(URLs[idx])
       \/ (lastOp'.op = "Dial" /\ lastOp'.err # Nil)

\* C9: a step of the initialization pass in which url.Parse or Dial fails ends
\* the Gather call with that error: no task was launched, nothing was given
\* to the accumulator, no poll request was sent, and bt.initialized stays
\* false; and a Gather call made while bt.initialized is false runs the
\* initialization pass.
C9_InitFailureAborts ==
    [][ /\ InitFailure =>
            /\ pc' = "idle"
            /\ IsError(ret')
            /\ ret' = IF ParseOK(URLs[idx]) THEN lastOp'.err ELSE ErrParse
            /\ tasks' = <<>>
            /\ wg' = 0
            /\ acc' = EmptyAcc
            /\ \A r \in reqs' : r.rawpath # PollPath
            /\ ~initialized'
        /\ (pc = "idle" /\ ~initialized /\ cycles' # cycles) => pc' = "init"
      ]_vars

\* a second gather cycle has failed in its initialization pass after the
\* first did, with a device already logged in
C9_Witness ==
    /\ pc = "idle"
    /\ IsError(ret)
    /\ ~initialized
    /\ cycles = 2
    /\ devices # <<>>

\* C10: once bt.initialized is true it stays true, and no step makes a device
\* or sends a login request.
C10_InitOnce ==
    [][ initialized =>
            /\ initialized'
            /\ created' = created
            /\ Len(devices') = Len(devices)
            /\ \A r \in reqs' \ reqs : r.rawpath # LoginPath
            /\ pc' # "init"
      ]_vars

\* a gather cycle after the one that initialized has returned, a poll having
\* failed in it
C10_Witness ==
    /\ initialized
    /\ cycles = 2
    /\ pc = "idle"
    /\ ret = Nil
    /\ created >= 1
    /\ \E i \in DOMAIN tasks : PollFailed(tasks[i])

\* a status request that was answered by status 200 and a JSON body whose
\* "values" member is absent or is not an object
MalformedPayload(t) ==
    /\ t.pc \in {"done", "panic"}
    /\ t.resp.err = Nil
    /\ t.resp.status = StatusOK
    /\ t.resp.body.json
    /\ ~HasValues(t.resp.body)

\* C11: a poll answered by status 200 and JSON without a "values" object ends
\* with an error that the task reports to the accumulator: the task is done,
\* the accumulator holds an error of that device and no fields of it, and the
\* process goes on (its siblings can complete and Gather can return).
C11_MalformedPayloadIsError ==
    \A i \in DOMAIN tasks :
        MalformedPayload(tasks[i]) =>
            /\ tasks[i].pc = "done"
            /\ pc # "crashed"
            /\ \E e \in BagToSet(acc.errors) : e.dev = i
            /\ \A f \in BagToSet(acc.fields) : f.dev # i

\* the endpoint and the cookie each kind of request is to have
Endpoint(r) ==
    /\ r.path = r.rawpath
    /\ r.rawpath \in {LoginPath, LogoutPath, PollPath}
    /\ r.rawpath = LoginPath => (r.method = MethodPost /\ r.cookie = Nil)
    /\ r.rawpath = LogoutPath => (r.method = MethodPost /\ r.cookie # Nil)
    /\ r.rawpath = PollPath => (r.method = MethodGet /\ r.cookie # Nil)

\* C12: every request sent goes to its endpoint path on the base address, by
\* the endpoint's method, and carries the session cookie exactly when the
\* endpoint is logout or status.
C12_RequestsTargetEndpoints ==
    \A r \in reqs : Endpoint(r)

\* the keys of a values map that some rule matches, and the rule of one
MatchedKeys(src) == {k \in DOMAIN src : Matching(k) # {}}
RuleOf(k) == CHOOSE rule \in RuleNames : rule \in Matching(k)

\* the key a rule reads for a matched key, and what src holds there
CompanionKey(k, rule) ==
    Companion(rule) \o
        Sprintf02d(Atoi(SubSeq(k, Len(Regexp(rule)) + 1, Len(k))).v)
CompanionValue(src, k, rule) == Lookup(src, CompanionKey(k, rule))

\* a label lower-cased and with its spaces replaced by underscores
Norm(label) ==
    [i \in 1..Len(label) |->
        IF label[i] = " " THEN "_" ELSE ToLowerChar(label[i])]

\* a temperature string without one trailing " *F"
Stripped(c) ==
    IF HasSuffix(c, TempSuffix) THEN SubSeq(c, 1, Len(c) - Len(TempSuffix))
    ELSE c
ParsesInt(t) == ~Atoi(t).err
IntOf(t) == Atoi(t).v

\* what a rule makes of a companion value
Transform(rule, c) ==
    IF rule = "Temp"
    THEN GoInt(IF ParsesInt(Stripped(c.str)) THEN IntOf(Stripped(c.str)) ELSE 0)
    ELSE c

\* values holds one key for each rule, each with a string label and with its
\* companion key present (a string for the temperature)
OneKeyPerRule(src) ==
    /\ \A rule \in RuleNames :
         Cardinality({k \in DOMAIN src : rule \in Matching(k)}) = 1
    /\ \A k \in MatchedKeys(src) :
         /\ src[k].kind = "string"
         /\ CompanionKey(k, RuleOf(k)) \in DOMAIN src
         /\ RuleOf(k) = "Temp" =>
                CompanionValue(src, k, RuleOf(k)).kind = "string"

\* the fields at the end of the loop are one per matched key, named by the
\* key's normalised label and holding the transform of its companion
OneFieldPerMatchedKey ==
    /\ lpc # "panic"
    /\ lpc = "emitted" =>
         /\ Cardinality(DOMAIN fields) = Cardinality(MatchedKeys(values))
         /\ \A k \in MatchedKeys(values) :
              /\ Norm(values[k].str) \in DOMAIN fields
              /\ fields[Norm(values[k].str)] =
                     Transform(RuleOf(k), CompanionValue(values, k, RuleOf(k)))
         /\ \A n \in DOMAIN fields :
              \E k \in MatchedKeys(values) : n = Norm(values[k].str)

\* C13 as stated: for a values map with one key per rule and their
\* companions, the loop ends with exactly one field per matched key, named by
\* the lower-cased label with underscores for spaces and holding the rule's
\* transform of the companion; other keys give no field.
C13_OneFieldPerKey ==
    OneKeyPerRule(values) => OneFieldPerMatchedKey

DistinctNames(src) ==
    \A k1, k2 \in MatchedKeys(src) :
        Norm(src[k1].str) = Norm(src[k2].str) => k1 = k2

\* C13 amended: the same, for a values map whose matched keys have labels
\* that normalise to different names.
C13_OneFieldPerKeyDistinct ==
    (OneKeyPerRule(values) /\ DistinctNames(values)) => OneFieldPerMatchedKey

C13_Witness ==
    /\ lpc = "emitted"
    /\ OneKeyPerRule(values)
    /\ DistinctNames(values)
    /\ Cardinality(DOMAIN fields) = Cardinality(RuleNames)
    /\ <<"s", "t", "u", "d", "i", "o", "_", "a">> \in DOMAIN fields
    /\ DOMAIN values \ MatchedKeys(values) # {}

\* C14: a visited key that a rule matches and whose companion key is absent
\* gives no field: the loop does not panic, the key writes nothing, and no
\* field holds null.
C14_AbsentCompanionNoField ==
    \A k \in MatchedKeys(values) \ keys :
        CompanionKey(k, RuleOf(k)) \notin DOMAIN values =>
            /\ lpc # "panic"
            /\ visit.key = k => visit.writes = 0
            /\ \A n \in DOMAIN fields : fields[n].kind # "null"

\* C15: every key matches at most one of the five rules, so an iteration
\* writes to fields at most once, and a field comes only from a visited key
\* that a rule matches: a key that matches none is left out.
C15_AtMostOneRule ==
    /\ \A k \in DOMAIN values : Cardinality(Matching(k)) <= 1
    /\ visit.writes <= 1
    /\ Matching(visit.key) = {} => visit.writes = 0
    /\ \A n \in DOMAIN fields :
         \E k \in MatchedKeys(values) \ keys :
             /\ values[k].kind = "string"
             /\ n = Norm(values[k].str)

\* the loop has ended over keys that are near misses of the patterns and one
\* relay key, which gave the only field
C15_Witness ==
    /\ lpc = "emitted"
    /\ values = OddKeys
    /\ Cardinality(DOMAIN fields) = 1
    /\ Cardinality(DOMAIN values) > 1

\* the latest iteration was of a temperature key with a string label and a
\* string companion
TempVisit ==
    /\ visit.key \in DOMAIN values
    /\ Matching(visit.key) = {"Temp"}
    /\ values[visit.key].kind = "string"
    /\ CompanionValue(values, visit.key, "Temp").kind = "string"
TempCompanion == CompanionValue(values, visit.key, "Temp").str

Max(S) == CHOOSE x \in S : \A y \in S : y <= x

\* the integer that the longest parsable prefix of a string denotes, 0 if none
NumericPrefix(c) ==
    LET ps == {n \in 0..Len(c) : ParsesInt(SubSeq(c, 1, n))} IN
    IF ps = {} THEN 0 ELSE IntOf(SubSeq(c, 1, Max(ps)))

C17_FailedPollFrame ==
    [][ /\ \A i \in DOMAIN tasks :
             (tasks[i].pc = "sent" /\ i \in DOMAIN tasks' /\ PollFailed(tasks'[i])) =>
                 /\ devices' = devices
                 /\ acc'.fields = acc.fields
                 /\ BagCardinality(acc'.errors) = BagCardinality(acc.errors) + 1
                 /\ pc' = pc
        /\ initialized => devices' = devices
        /\ \A i \in DOMAIN tasks :
             (tasks[i].pc = "ready" /\ i \in DOMAIN tasks' /\ tasks'[i].pc = "sent") =>
                 /\ devices[i].ck # Nil
                 /\ \E r \in reqs' :
                        r.rawpath = PollPath /\ r.cookie = devices[i].ck
      ]_vars

\* in the cycle after the one that initialized, a poll has failed; its device
\* still holds the cookie that the request carried, and its client
C17_Witness ==
    /\ initialized
    /\ cycles = 2
    /\ \E i \in DOMAIN tasks :
         /\ PollFailed(tasks[i])
         /\ devices[i].ck # Nil
         /\ devices[i].c # Nil
         /\ \E r \in reqs : r.rawpath = PollPath /\ r.cookie = devices[i].ck
    /\ acc.fields = EmptyBag

\* C18: Gather on a device that has no cookie returns an error to its caller,
\* sends no request and gives the accumulator no fields.
C18_UnauthenticatedPollFails ==
    (lastOp.op = "Gather" /\ lastOp.pre.ck = Nil) =>
        /\ pc = "called"
        /\ IsError(lastOp.err)
        /\ lastOp.reqs = {}
        /\ acc.fields = EmptyBag

\* C19: under fair scheduling, with every status request coming back, a
\* gather cycle that has begun to launch its polls eventually returns.
C19_CycleReturns == (pc = "launch") ~> (pc = "idle")

\* what holds in its place: the cycle returns unless a poll panics
ReturnsOrPanics == (pc = "launch") ~> (pc \in {"idle", "crashed"})

\* C20: bt.devices holds at most one device for each entry of bt.URLs, so a
\* cycle launches at most one poll per entry and no entry is logged into
\* through two device values that are both kept.
C20_OneDevicePerURL ==
    /\ \A i, j \in DOMAIN devices : devices[i].url = devices[j].url => i = j
    /\ Len(devices) <= Len(URLs)
    /\ Len(tasks) <= Len(URLs)
====
